---- MODULE Spec2Model ----
(***************************************************************************)
(* Model of src/src/charm.py, ArgoRolloutsCharm: the lifecycle handlers    *)
(* _install_and_restart, _on_stop, _on_remove and the helpers they call.   *)
(* Hooks are dispatched one at a time (ops runs one hook per process); a   *)
(* handler is modelled as a sequence of steps, one step per call to an     *)
(* external collaborator (cluster API, Pebble, metrics endpoint), because  *)
(* each such call may fail on its own.                                     *)
(***************************************************************************)
EXTENDS Integers, Sequences, FiniteSets, TLC

\* ---------------------------------------------------------------- bounds
\* Number of resources the templates render to.
NumResources == 3
\* Number of hooks Juju dispatches to the unit in one behaviour.
MaxDispatches == 3
\* Number of times the status evaluator is called on its own.
MaxRefresh == 2
\* Number of direct runs of the apply and delete loops.
MaxRuns == 3

\* ------------------------------------------------------- program constants
METRICS_PORT == 8090
MAX_PEBBLE_RETRIES == 3
PEBBLE_RETRY_DELAY == 3

pebble_service_name == "argo-rollouts"
\* A service of another layer in the same container (LogProxyConsumer adds one).
OtherService == "promtail"
Namespace == "test"

VARIABLES
    resources,        \* the rendered resources, in glob/document order
    cluster,          \* indices of the resources present in the cluster
    plan,             \* Pebble plan: services map, name -> service spec
    services,         \* Pebble run state: name -> "active" | "inactive" | "error"
    canConnect,       \* whether the Pebble socket answers
    unitStatus,       \* self.unit.status
    workloadVersion,  \* value last given to set_workload_version
    ports,            \* ports opened by set_ports
    deferred,         \* number of deferred events in the framework's storage
    queue,            \* events still to run in the current hook dispatch
    dispatches,       \* hooks dispatched so far
    phase,            \* "live" | "stopped" | "removed"
    pc,               \* position of the running handler
    idx,              \* index of the resource the apply/delete loop is at
    attempt,          \* loop variable of _configure_argo_rollouts_pebble_layer
    handler,          \* name of the running (or last run) handler
    trace,            \* external calls made by that handler, in order
    delays,           \* arguments of time.sleep in that handler, in order
    ret,              \* what _configure_argo_rollouts_pebble_layer returned
    evalResult,       \* what _argo_rollouts_status returned
    probe,            \* the metrics response read by the version property
    planAtStart,      \* plan when the handler began
    statusAtStart,    \* unit status when the handler began
    hookFailed,       \* an exception left the handler (the hook errored)
    written           \* add_layer wrote the layer and no replan completed since

vars == <<resources, cluster, plan, services, canConnect, unitStatus,
          workloadVersion, ports, deferred, queue, dispatches, phase, pc, idx,
          attempt, handler, trace, delays, ret, evalResult, probe,
          planAtStart, statusAtStart, hookFailed, written>>

\* ------------------------------------------------------------ unit status
Status(n, m) == [name |-> n, message |-> m]
UnknownStatus == Status("unknown", "")
MaintenanceCreating == Status("maintenance", "creating kubernetes resources")
MaintenanceDeleting == Status("maintenance", "deleting kubernetes resources")
WaitingPebble == Status("waiting", "Waiting for Pebble in workload container")
WaitingService == Status("waiting", "Waiting for Argo Rollouts service")
ActiveStatus == Status("active", "")
BlockedStatus == Status("blocked", "kubernetes resource creation failed")

\* ------------------------------------------------------------ Pebble layer
ServiceSpec(cmd, startup) ==
    [override |-> "replace", summary |-> "Argo Rollouts", command |-> cmd,
     startup |-> startup]

\* _pebble_layer.to_dict()["services"]
PebbleLayerServices ==
    [n \in {pebble_service_name} |-> ServiceSpec("/bin/rollouts-controller", "enabled")]

\* The layer of an earlier revision of the charm (other command).
OldLayerServices ==
    [n \in {pebble_service_name} |-> ServiceSpec("/bin/old-controller", "enabled")]

\* The layer an unrelated library keeps in the same container.
OtherLayerServices ==
    [n \in {OtherService} |-> ServiceSpec("/promtail", "disabled")]

Merge(f, g) ==
    [n \in DOMAIN f \cup DOMAIN g |-> IF n \in DOMAIN g THEN g[n] ELSE f[n]]

EmptyMap == [n \in {} |-> 0]

\* container.add_layer("argo-rollouts", layer, combine=True): the layer's
\* services (override: replace) replace those of the same name.
AddLayer(p) == Merge(p, PebbleLayerServices)

\* Run state after add_layer: a service new to the plan is not started.
ServicesAfterAddLayer(p, s) ==
    [n \in DOMAIN p |-> IF n \in DOMAIN s THEN s[n] ELSE "inactive"]

\* container.replan(): every service with startup: enabled runs afterwards.
ServicesAfterReplan(p, s) ==
    [n \in DOMAIN p |->
        IF p[n].startup = "enabled" THEN "active"
        ELSE IF n \in DOMAIN s THEN s[n] ELSE "inactive"]

\* Mutant: the layer is written whatever the plan holds.
LayerAlwaysDiffers(p) == TRUE

\* services != new_layer["services"]
LayerDiffers(p) == p # PebbleLayerServices

\* ---------------------------------------------------------- status evaluator
\* Mutant: a service that is present counts as running.
ArgoRolloutsStatusPresentOnly(connected, svcs) ==
    IF ~connected THEN WaitingPebble
    ELSE IF pebble_service_name \in DOMAIN svcs THEN ActiveStatus
         ELSE WaitingService

\* _argo_rollouts_status: get_services() raises ConnectionError when Pebble
\* does not answer; service.is_running() is current == ACTIVE.
ArgoRolloutsStatus(connected, svcs) ==
    IF ~connected THEN WaitingPebble
    ELSE IF pebble_service_name \in DOMAIN svcs /\ svcs[pebble_service_name] = "active"
         THEN ActiveStatus
         ELSE WaitingService

\* ------------------------------------------------------------ version probe
\* The metrics text is a sequence of symbols: single characters inside the
\* version token, and one symbol for each stretch of text around it.
InfoPrefix == "argo_rollouts_controller_info{version=\""
Quote == "\""
OtherLine == "go_goroutines 42\n"
RestOfLine == ",goversion=\"go1.21\"} 1\n"

\* [0-9] and [+0-9a-f]
Digits == {"0", "1", "2", "3", "4", "5", "6", "7", "8", "9"}
BuildClass == Digits \cup {"+", "a", "b", "c", "d", "e", "f"}

\* Index after the longest run of symbols of S that starts at i.
RECURSIVE RunEnd(_, _, _)
RunEnd(t, i, S) ==
    IF i <= Len(t) /\ t[i] \in S THEN RunEnd(t, i + 1, S) ELSE i

Is(t, i, c) == i <= Len(t) /\ t[i] = c

\* The group captured when the pattern
\*   argo_rollouts_controller_info{version="(v[0-9]+[.][0-9]+[.][0-9]+[+0-9a-f]*)"
\* matches at position p, <<>> when it does not. The closing quote and the
\* dots are in none of the classes, so only the longest runs can match.
MatchAt(t, p) ==
    LET v  == p + 1
        d1 == RunEnd(t, v + 1, Digits)
        d2 == RunEnd(t, d1 + 1, Digits)
        d3 == RunEnd(t, d2 + 1, Digits)
        e  == RunEnd(t, d3, BuildClass)
    IN  IF /\ Is(t, p, InfoPrefix)
           /\ Is(t, v, "v")
           /\ d1 > v + 1 /\ Is(t, d1, ".")
           /\ d2 > d1 + 1 /\ Is(t, d2, ".")
           /\ d3 > d2 + 1
           /\ Is(t, e, Quote)
        THEN SubSeq(t, v, e - 1)
        ELSE <<>>

\* version_pattern.search(raw_metrics_text): the leftmost match.
PatternSearch(t) ==
    LET ps == {p \in 1..Len(t) : MatchAt(t, p) # <<>>}
    IN  IF ps = {} THEN <<>>
        ELSE MatchAt(t, CHOOSE p \in ps : \A q \in ps : p <= q)

\* Metrics text whose info line carries `token`.
MetricsText(token) == <<OtherLine, InfoPrefix>> \o token \o <<Quote, RestOfLine>>

ReleaseToken ==
    <<"v", "1", ".", "6", ".", "6", "+", "7", "3", "7", "c", "a", "8", "9">>

NoVersion == <<>>
FetchFailed == <<"fetching version failed">>

\* A response of GET /metrics: the request raises, or it returns text.
MetricsResponses ==
    { [raises |-> TRUE, text |-> <<>>],
      [raises |-> FALSE, text |-> <<OtherLine>>],
      [raises |-> FALSE, text |-> MetricsText(ReleaseToken)] }

NoProbe == [raises |-> FALSE, text |-> <<"not probed">>]

\* _request_version
RequestVersion(resp) ==
    LET m == PatternSearch(resp.text)
    IN  IF m # <<>> THEN m ELSE FetchFailed

\* Mutant: the version property lets the exception of the request through
\* to the placeholder.
VersionUncaught(resp) == RequestVersion(resp)

\* version property: any exception yields ""
Version(resp) == IF resp.raises THEN NoVersion ELSE RequestVersion(resp)

\* ------------------------------------------------------------------ retry
\* Mutant: off by one, a fourth attempt is made.
RetriesExhaustedLate(a) == a >= MAX_PEBBLE_RETRIES

\* if attempt >= MAX_PEBBLE_RETRIES - 1: return False
RetriesExhausted(a) == a >= MAX_PEBBLE_RETRIES - 1

\* time.sleep(PEBBLE_RETRY_DELAY * attempt)
RetryDelay(a) == PEBBLE_RETRY_DELAY * a

\* ------------------------------------------------------------------ events
InstallEvents == {"install", "upgrade_charm", "argo_rollouts_pebble_ready"}

Call(op, res, ns, ok) == [op |-> op, res |-> res, namespace |-> ns, ok |-> ok]

Repeat(x, n) == [i \in 1..n |-> x]

\* The rendered resources: kind and name are unique per document, the
\* namespace is declared or not (""). Two template sets: namespaced and
\* cluster-scoped documents alternate, starting with either.
RenderedResources ==
    { [i \in 1..NumResources |->
          [kind |-> i, name |-> i,
           namespace |-> IF i % 2 = first THEN Namespace ELSE ""]] :
        first \in {0, 1} }

InitialPlans ==
    { EmptyMap, OldLayerServices, OtherLayerServices,
      Merge(OldLayerServices, OtherLayerServices) }

Init ==
    /\ resources \in RenderedResources
    /\ cluster = {}
    /\ plan \in InitialPlans
    /\ services \in { s \in [DOMAIN plan -> {"active", "inactive"}] :
                        OtherService \in DOMAIN plan => s[OtherService] = "active" }
    /\ canConnect \in BOOLEAN
    /\ unitStatus = UnknownStatus
    /\ workloadVersion = NoVersion
    /\ ports = {}
    /\ deferred = 0
    /\ queue = <<>>
    /\ dispatches = 0
    /\ phase = "live"
    /\ pc = "idle"
    /\ idx = 0
    /\ attempt = 0
    /\ handler = "none"
    /\ trace = <<>>
    /\ delays = <<>>
    /\ ret = "none"
    /\ evalResult = UnknownStatus
    /\ probe = NoProbe
    /\ planAtStart = plan
    /\ statusAtStart = UnknownStatus
    /\ hookFailed = FALSE
    /\ written = FALSE


\* ---------------------------------------------------------------- dispatch
\* Juju dispatches a hook. ops first re-emits every deferred event, then
\* emits the hook's own event. install is the first hook, stop and remove
\* are the last two.
Dispatch(ev) ==
    /\ pc = "idle"
    /\ queue = <<>>
    /\ ~hookFailed
    /\ dispatches < MaxDispatches
    /\ \/ ev = "install" /\ dispatches = 0 /\ phase' = phase
       \/ ev \in {"upgrade_charm", "argo_rollouts_pebble_ready"}
            /\ dispatches > 0 /\ phase = "live" /\ phase' = phase
       \/ ev = "stop" /\ dispatches > 0 /\ phase = "live" /\ phase' = "stopped"
       \/ ev = "remove" /\ phase = "stopped" /\ phase' = "removed"
    /\ queue' = Repeat("reemit", deferred) \o <<ev>>
    /\ deferred' = 0
    /\ dispatches' = dispatches + 1
    /\ UNCHANGED <<resources, written, cluster, plan, services, canConnect, unitStatus,
                   workloadVersion, ports, pc, idx, attempt, handler, trace,
                   delays, ret, evalResult, probe, planAtStart, statusAtStart,
                   hookFailed>>

\* A handler starts: the record of the previous handler's calls is dropped.
HandlerStarts ==
    /\ trace' = <<>>
    /\ delays' = <<>>
    /\ ret' = "none"
    /\ evalResult' = UnknownStatus
    /\ probe' = NoProbe
    /\ attempt' = 0
    /\ planAtStart' = plan
    /\ statusAtStart' = unitStatus

\* The handler returns: the framework goes on to the next event of the hook.
HandlerReturns ==
    /\ pc' = "idle"
    /\ queue' = Tail(queue)

\* ------------------------------------------------- _install_and_restart
\* Line 79: the handler starts by setting the maintenance status.
InstallAndRestart ==
    /\ pc = "idle"
    /\ queue # <<>>
    /\ Head(queue) \in InstallEvents \cup {"reemit"}
    /\ unitStatus' = MaintenanceCreating
    /\ pc' = "apply"
    /\ idx' = 1
    /\ handler' = "install_and_restart"
    /\ HandlerStarts
    /\ UNCHANGED <<resources, written, cluster, plan, services, canConnect,
                   workloadVersion, ports, deferred, queue, dispatches, phase,
                   hookFailed>>

\* Mutant: the pebble layer is configured inside the resource loop.
OnApplyOkInsideLoop ==
    /\ pc' = "get_plan"
    /\ UNCHANGED <<idx, unitStatus, queue>>

\* client.apply(resource) succeeded: the loop goes on; after the last
\* resource _configure_argo_rollouts_pebble_layer starts.
OnApplyOk ==
    /\ IF idx = Len(resources)
       THEN pc' = "get_plan" /\ idx' = idx
       ELSE idx' = idx + 1 /\ pc' = pc
    /\ UNCHANGED <<unitStatus, queue>>

\* Mutant: the ApiError is swallowed and the loop goes on.
OnApplyErrorSwallowed == OnApplyOk

\* except ApiError in _install_and_restart: Blocked, and the handler ends.
OnApplyError ==
    /\ unitStatus' = BlockedStatus
    /\ HandlerReturns
    /\ UNCHANGED idx

\* ------------------------------------------------------------ cluster API
\* client.apply(resource): server-side apply, creates or updates.
ClusterAfterApply(c, i) == c \cup {i}

\* client.delete(...): the API answers 404, which lightkube raises as an
\* ApiError, for a resource that is not there; apiOk is FALSE for any other
\* error of the API.
DeleteSucceeds(c, i, apiOk) == apiOk /\ i \in c

ClusterAfterDelete(c, i) == c \ {i}

\* _create_kubernetes_resources: one client.apply per step.
CreateKubernetesResources ==
    /\ pc = "apply"
    /\ \E ok \in BOOLEAN :
        /\ trace' = Append(trace, Call("apply", idx, resources[idx].namespace, ok))
        /\ IF ok
           THEN cluster' = ClusterAfterApply(cluster, idx) /\ OnApplyOk
           ELSE cluster' = cluster /\ OnApplyError
    /\ UNCHANGED <<resources, written, plan, services, canConnect, workloadVersion,
                   ports, deferred, dispatches, phase, attempt, handler,
                   delays, ret, evalResult, probe, planAtStart, statusAtStart,
                   hookFailed>>

\* ------------------------------- _configure_argo_rollouts_pebble_layer
\* Mutant: the event is not deferred.
ReturnFalseNoDefer ==
    /\ ret' = "false"
    /\ unitStatus' = WaitingPebble
    /\ deferred' = deferred
    /\ HandlerReturns
    /\ UNCHANGED <<attempt, delays>>

\* return False, then lines 84-86 of the caller: Waiting, defer, return.
ReturnFalse ==
    /\ ret' = "false"
    /\ unitStatus' = WaitingPebble
    /\ deferred' = deferred + 1
    /\ HandlerReturns
    /\ UNCHANGED <<attempt, delays>>

\* time.sleep, then the next iteration of the for loop.
RetryAfterDelay ==
    /\ delays' = Append(delays, RetryDelay(attempt))
    /\ attempt' = attempt + 1
    /\ pc' = "get_plan"
    /\ UNCHANGED <<ret, unitStatus, deferred, queue>>

\* except ops.pebble.ConnectionError (lines 107-110). The return after the
\* loop (line 111) is not reachable: the last iteration returns.
OnConnectionError ==
    IF RetriesExhausted(attempt) THEN ReturnFalse ELSE RetryAfterDelay

NoRetry == UNCHANGED <<attempt, delays, ret, unitStatus, deferred, queue>>

\* After the plan was read (line 98).
AfterGetPlan == IF LayerDiffers(plan) THEN "add_layer" ELSE "publish"

\* Mutant: replan is left out.
AfterAddLayerNoReplan == "publish"

\* After add_layer succeeded (line 101).
AfterAddLayer == "replan"

\* self.container.get_plan()
GetPlan ==
    /\ pc = "get_plan"
    /\ trace' = Append(trace, Call("get_plan", attempt, "", canConnect))
    /\ IF canConnect
       THEN pc' = AfterGetPlan /\ NoRetry
       ELSE OnConnectionError
    /\ UNCHANGED <<resources, written, cluster, plan, services, canConnect,
                   workloadVersion, ports, dispatches, phase, idx, handler,
                   evalResult, probe, planAtStart, statusAtStart, hookFailed>>

\* self.container.add_layer(..., combine=True)
AddLayerCall ==
    /\ pc = "add_layer"
    /\ trace' = Append(trace, Call("add_layer", attempt, "", canConnect))
    /\ IF canConnect
       THEN /\ plan' = AddLayer(plan)
            /\ services' = ServicesAfterAddLayer(plan', services)
            /\ written' = TRUE
            /\ pc' = AfterAddLayer
            /\ NoRetry
       ELSE /\ UNCHANGED <<plan, services, written>>
            /\ OnConnectionError
    /\ UNCHANGED <<resources, cluster, canConnect, workloadVersion, ports,
                   dispatches, phase, idx, handler, evalResult, probe,
                   planAtStart, statusAtStart, hookFailed>>

\* self.container.replan()
Replan ==
    /\ pc = "replan"
    /\ trace' = Append(trace, Call("replan", attempt, "", canConnect))
    /\ IF canConnect
       THEN /\ services' = ServicesAfterReplan(plan, services)
            /\ written' = FALSE
            /\ pc' = "publish"
            /\ NoRetry
       ELSE /\ UNCHANGED <<services, written>>
            /\ OnConnectionError
    /\ UNCHANGED <<resources, cluster, plan, canConnect, workloadVersion,
                   ports, dispatches, phase, idx, handler, evalResult, probe,
                   planAtStart, statusAtStart, hookFailed>>

\* Mutant: the version is published, the port is not declared.
PublishNoPorts ==
    /\ pc = "publish"
    /\ \E resp \in MetricsResponses :
        /\ probe' = resp
        /\ workloadVersion' = Version(resp)
    /\ trace' = trace \o <<Call("set_workload_version", attempt, "", TRUE),
                          Call("set_ports", attempt, "", TRUE)>>
    /\ ret' = "true"
    /\ pc' = "status"
    /\ UNCHANGED <<resources, written, cluster, plan, services, canConnect, unitStatus,
                   deferred, queue, dispatches, phase, idx, attempt, handler,
                   delays, evalResult, planAtStart, statusAtStart, hookFailed,
                   ports>>

\* Lines 104-106: set_workload_version(self.version), _handle_ports(),
\* return True. Neither call talks to Pebble.
Publish ==
    /\ pc = "publish"
    /\ \E resp \in MetricsResponses :
        /\ probe' = resp
        /\ workloadVersion' = Version(resp)
    /\ ports' = {METRICS_PORT}
    /\ trace' = trace \o <<Call("set_workload_version", attempt, "", TRUE),
                          Call("set_ports", attempt, "", TRUE)>>
    /\ ret' = "true"
    /\ pc' = "status"
    /\ UNCHANGED <<resources, written, cluster, plan, services, canConnect, unitStatus,
                   deferred, queue, dispatches, phase, idx, attempt, handler,
                   delays, evalResult, planAtStart, statusAtStart, hookFailed>>

\* Line 88: self.unit.status = self._argo_rollouts_status()
SetStatus ==
    /\ pc = "status"
    /\ trace' = Append(trace, Call("get_services", attempt, "", canConnect))
    /\ evalResult' = ArgoRolloutsStatus(canConnect, services)
    /\ unitStatus' = evalResult'
    /\ HandlerReturns
    /\ UNCHANGED <<resources, written, cluster, plan, services, canConnect,
                   workloadVersion, ports, deferred, dispatches, phase, idx,
                   attempt, handler, delays, ret, probe, planAtStart,
                   statusAtStart, hookFailed>>

\* ------------------------------------------------------------- _on_stop
\* Mutant: the resources are deleted on stop already.
OnStopDeletes ==
    /\ pc = "idle"
    /\ queue # <<>>
    /\ Head(queue) = "stop"
    /\ unitStatus' = MaintenanceDeleting
    /\ cluster' = {}
    /\ handler' = "stop"
    /\ HandlerStarts
    /\ HandlerReturns
    /\ UNCHANGED <<resources, written, plan, services, canConnect,
                   workloadVersion, ports, deferred, dispatches, phase, idx,
                   hookFailed>>

OnStop ==
    /\ pc = "idle"
    /\ queue # <<>>
    /\ Head(queue) = "stop"
    /\ unitStatus' = MaintenanceDeleting
    /\ handler' = "stop"
    /\ HandlerStarts
    /\ HandlerReturns
    /\ UNCHANGED <<resources, written, cluster, plan, services, canConnect,
                   workloadVersion, ports, deferred, dispatches, phase, idx,
                   hookFailed>>

\* ----------------------------------------------------------- _on_remove
OnRemove ==
    /\ pc = "idle"
    /\ queue # <<>>
    /\ Head(queue) = "remove"
    /\ pc' = "delete"
    /\ idx' = 1
    /\ handler' = "remove"
    /\ HandlerStarts
    /\ UNCHANGED <<resources, written, cluster, plan, services, canConnect, unitStatus,
                   workloadVersion, ports, deferred, queue, dispatches, phase,
                   hookFailed>>

\* Mutant: the test of the namespace is inverted.
DeleteCallInverted(i, r, ok) ==
    IF r.namespace # ""
    THEN Call("delete_cluster", i, "", ok)
    ELSE Call("delete_namespaced", i, r.namespace, ok)

\* Lines 160-167: which client.delete the loop issues for a resource. Every
\* rendered document carries metadata, so `resource.metadata and ...` turns
\* on the namespace alone.
DeleteCall(i, r, ok) ==
    IF r.namespace = ""
    THEN Call("delete_cluster", i, "", ok)
    ELSE Call("delete_namespaced", i, r.namespace, ok)

\* Mutant: _on_remove does not catch the ApiError.
OnDeleteErrorPropagates ==
    /\ hookFailed' = TRUE
    /\ HandlerReturns
    /\ UNCHANGED idx

\* except ApiError in _on_remove: logged, the handler returns normally.
OnDeleteError ==
    /\ HandlerReturns
    /\ UNCHANGED <<idx, hookFailed>>

\* client.delete succeeded: next resource, or return True.
OnDeleteOk ==
    /\ IF idx = Len(resources)
       THEN HandlerReturns /\ idx' = idx
       ELSE idx' = idx + 1 /\ UNCHANGED <<pc, queue>>
    /\ UNCHANGED hookFailed

\* _delete_kubernetes_resources: one client.delete per step. The cluster
\* API answers 404 (an ApiError) for a resource that is not there.
DeleteKubernetesResources ==
    /\ pc = "delete"
    /\ \E apiOk \in BOOLEAN :
        LET ok == DeleteSucceeds(cluster, idx, apiOk) IN
        /\ trace' = Append(trace, DeleteCall(idx, resources[idx], ok))
        /\ IF ok
           THEN cluster' = ClusterAfterDelete(cluster, idx) /\ OnDeleteOk
           ELSE cluster' = cluster /\ OnDeleteError
    /\ UNCHANGED <<resources, written, plan, services, canConnect, unitStatus,
                   workloadVersion, ports, deferred, dispatches, phase,
                   attempt, handler, delays, ret, evalResult, probe,
                   planAtStart, statusAtStart>>

\* ----------------------------------------------------------- environment
\* The Pebble socket of the workload container comes up or goes away. The
\* charm sees it only when it calls Pebble, so the change is taken right
\* before such a call.
PebbleCalls == {"get_plan", "add_layer", "replan", "status"}

PebbleUp ==
    /\ pc \in PebbleCalls
    /\ ~canConnect
    /\ canConnect' = TRUE
    /\ UNCHANGED <<resources, written, cluster, plan, services, unitStatus,
                   workloadVersion, ports, deferred, queue, dispatches, phase,
                   pc, idx, attempt, handler, trace, delays, ret, evalResult,
                   probe, planAtStart, statusAtStart, hookFailed>>

PebbleDown ==
    /\ pc \in PebbleCalls
    /\ canConnect
    /\ canConnect' = FALSE
    /\ UNCHANGED <<resources, written, cluster, plan, services, unitStatus,
                   workloadVersion, ports, deferred, queue, dispatches, phase,
                   pc, idx, attempt, handler, trace, delays, ret, evalResult,
                   probe, planAtStart, statusAtStart, hookFailed>>

Events == InstallEvents \cup {"stop", "remove"}

Next ==
    \/ \E ev \in Events : Dispatch(ev)
    \/ InstallAndRestart
    \/ CreateKubernetesResources
    \/ GetPlan
    \/ AddLayerCall
    \/ Replan
    \/ Publish
    \/ SetStatus
    \/ OnStop
    \/ OnRemove
    \/ DeleteKubernetesResources
    \/ PebbleUp
    \/ PebbleDown

Spec == Init /\ [][Next]_vars


\* ------------------------------------------- the status evaluator alone
\* _argo_rollouts_status called on its own (as the unit tests do), from any
\* container state and any unit status.
StatusPlans ==
    { EmptyMap, PebbleLayerServices, OtherLayerServices,
      Merge(PebbleLayerServices, OtherLayerServices) }

InitStatus ==
    /\ resources \in RenderedResources
    /\ cluster \in {{}, 1..NumResources}
    /\ plan \in StatusPlans
    /\ services \in [DOMAIN plan -> {"active", "inactive", "error"}]
    /\ canConnect \in BOOLEAN
    /\ unitStatus \in {WaitingPebble, BlockedStatus, MaintenanceCreating, ActiveStatus}
    /\ workloadVersion \in {NoVersion, ReleaseToken}
    /\ ports \in {{}, {METRICS_PORT}}
    /\ deferred = 0
    /\ queue = <<>>
    /\ dispatches = 0
    /\ phase = "live"
    /\ pc = "idle"
    /\ idx = 0
    /\ attempt = 0
    /\ handler = "none"
    /\ trace = <<>>
    /\ delays = <<>>
    /\ ret = "none"
    /\ evalResult = UnknownStatus
    /\ probe = NoProbe
    /\ planAtStart = plan
    /\ statusAtStart = unitStatus
    /\ hookFailed = FALSE
    /\ written = FALSE

\* Mutant: the evaluator assigns the unit status itself.
StatusRefreshSetsStatus ==
    /\ pc = "idle"
    /\ handler = "none"
    /\ Len(trace) < MaxRefresh
    /\ trace' = Append(trace, Call("get_services", 0, "", canConnect))
    /\ evalResult' = ArgoRolloutsStatus(canConnect, services)
    /\ unitStatus' = evalResult'
    /\ UNCHANGED <<resources, written, cluster, plan, services, canConnect,
                   workloadVersion, ports, deferred, queue, dispatches, phase,
                   pc, idx, attempt, handler, delays, ret, probe, planAtStart,
                   statusAtStart, hookFailed>>

StatusRefresh ==
    /\ pc = "idle"
    /\ handler = "none"
    /\ Len(trace) < MaxRefresh
    /\ trace' = Append(trace, Call("get_services", 0, "", canConnect))
    /\ evalResult' = ArgoRolloutsStatus(canConnect, services)
    /\ UNCHANGED <<resources, written, cluster, plan, services, canConnect, unitStatus,
                   workloadVersion, ports, deferred, queue, dispatches, phase,
                   pc, idx, attempt, handler, delays, ret, probe, planAtStart,
                   statusAtStart, hookFailed>>

NextStatus == StatusRefresh

SpecStatus == InitStatus /\ [][NextStatus]_vars

\* ------------------------------------- the apply and delete loops alone
\* _create_kubernetes_resources and _delete_kubernetes_resources called on
\* their own, any number of times, against a cluster holding any subset of
\* the resources. `faults` are the resources at which the API fails for a
\* reason other than the resource's absence.
RECURSIVE CreateLoop(_, _, _, _)
CreateLoop(i, c, calls, faults) ==
    IF i > Len(resources)
    THEN [cluster |-> c, calls |-> calls, raised |-> FALSE]
    ELSE IF i \in faults
         THEN [cluster |-> c, raised |-> TRUE,
               calls |-> Append(calls, Call("apply", i, resources[i].namespace, FALSE))]
         ELSE CreateLoop(i + 1, ClusterAfterApply(c, i),
                         Append(calls, Call("apply", i, resources[i].namespace, TRUE)),
                         faults)

RECURSIVE DeleteLoop(_, _, _, _)
DeleteLoop(i, c, calls, faults) ==
    IF i > Len(resources)
    THEN [cluster |-> c, calls |-> calls, raised |-> FALSE]
    ELSE IF ~DeleteSucceeds(c, i, i \notin faults)
         THEN [cluster |-> c, raised |-> TRUE,
               calls |-> Append(calls, DeleteCall(i, resources[i], FALSE))]
         ELSE DeleteLoop(i + 1, ClusterAfterDelete(c, i),
                         Append(calls, DeleteCall(i, resources[i], TRUE)), faults)

\* Every way the documents can declare a namespace or not.
LoopResources ==
    { [i \in 1..NumResources |-> [kind |-> i, name |-> i, namespace |-> ns[i]]] :
        ns \in [1..NumResources -> {"", Namespace}] }

InitLoops ==
    /\ resources \in LoopResources
    /\ cluster \in SUBSET (1..NumResources)
    /\ plan = EmptyMap
    /\ services = EmptyMap
    /\ canConnect = TRUE
    /\ unitStatus = UnknownStatus
    /\ workloadVersion = NoVersion
    /\ ports = {}
    /\ deferred = 0
    /\ queue = <<>>
    /\ dispatches = 0
    /\ phase = "live"
    /\ pc = "idle"
    /\ idx = 0
    /\ attempt = 0
    /\ handler = "none"
    /\ trace = <<>>
    /\ delays = <<>>
    /\ ret = "none"
    /\ evalResult = UnknownStatus
    /\ probe = NoProbe
    /\ planAtStart = plan
    /\ statusAtStart = UnknownStatus
    /\ hookFailed = FALSE
    /\ written = FALSE

\* A run ends: what it did to the cluster, its calls, whether it raised.
LoopEnds(r, name) ==
    /\ cluster' = r.cluster
    /\ trace' = r.calls
    /\ ret' = IF r.raised THEN "raised" ELSE "true"
    /\ handler' = name
    /\ idx' = idx + 1
    /\ UNCHANGED <<resources, written, plan, services, canConnect, unitStatus,
                   workloadVersion, ports, deferred, queue, dispatches, phase,
                   pc, attempt, delays, evalResult, probe, planAtStart,
                   statusAtStart, hookFailed>>

\* self._create_kubernetes_resources(), the API being available.
RunCreate ==
    /\ idx < MaxRuns
    /\ LoopEnds(CreateLoop(1, cluster, <<>>, {}), "create")

\* self._delete_kubernetes_resources(), the API being available.
RunDelete ==
    /\ idx < MaxRuns
    /\ LoopEnds(DeleteLoop(1, cluster, <<>>, {}), "delete")

NextLoops == RunCreate \/ RunDelete

SpecLoops == InitLoops /\ [][NextLoops]_vars

\* ============================================================ probe runs
\* The version property applied to metrics text whose info line carries a
\* token v<major>.<minor>.<patch>, alone or followed by + and build
\* metadata of letters, digits and hyphens.
MaxBuildLen == 3
BuildChars == {"7", "a", "g", "-"}
Builds == UNION { [1..n -> BuildChars] : n \in 1..MaxBuildLen }
Cores ==
    { <<"v", "1", ".", "6", ".", "6">>,
      <<"v", "1", "0", ".", "0", ".", "2">> }
Tokens == Cores \cup { c \o <<"+">> \o b : c \in Cores, b \in Builds }

ProbeResponses ==
    { [raises |-> FALSE, text |-> MetricsText(tok)] : tok \in Tokens }
        \cup MetricsResponses

InitProbe ==
    /\ resources \in RenderedResources
    /\ cluster = {}
    /\ plan = EmptyMap
    /\ services = EmptyMap
    /\ canConnect = TRUE
    /\ unitStatus = UnknownStatus
    /\ workloadVersion = NoVersion
    /\ ports = {}
    /\ deferred = 0
    /\ queue = <<>>
    /\ dispatches = 0
    /\ phase = "live"
    /\ pc = "idle"
    /\ idx = 0
    /\ attempt = 0
    /\ handler = "none"
    /\ trace = <<>>
    /\ delays = <<>>
    /\ ret = "none"
    /\ evalResult = UnknownStatus
    /\ probe \in ProbeResponses
    /\ planAtStart = plan
    /\ statusAtStart = UnknownStatus
    /\ hookFailed = FALSE
    /\ written = FALSE

\* self.unit.set_workload_version(self.version)
RunVersion ==
    /\ handler = "none"
    /\ workloadVersion' = Version(probe)
    /\ handler' = "version"
    /\ UNCHANGED <<resources, written, cluster, plan, services, canConnect,
                   unitStatus, ports, deferred, queue, dispatches, phase, pc,
                   idx, attempt, trace, delays, ret, evalResult, probe,
                   planAtStart, statusAtStart, hookFailed>>

NextProbe == RunVersion

SpecProbe == InitProbe /\ [][NextProbe]_vars

\* ==================================================== install, under fairness
\* The unit from its install hook on, before any stop: every client.apply
\* succeeds, a handler that started runs to its end, the install hook is
\* dispatched, and a hook is dispatched again while an event is deferred.
\* Pebble may go away and come back at any moment.
CreateKubernetesResourcesOk ==
    /\ pc = "apply"
    /\ trace' = Append(trace, Call("apply", idx, resources[idx].namespace, TRUE))
    /\ cluster' = ClusterAfterApply(cluster, idx)
    /\ OnApplyOk
    /\ UNCHANGED <<resources, written, plan, services, canConnect, workloadVersion,
                   ports, deferred, dispatches, phase, attempt, handler,
                   delays, ret, evalResult, probe, planAtStart, statusAtStart,
                   hookFailed>>

\* The install hook: the first dispatch.
InstallHook ==
    /\ pc = "idle"
    /\ queue = <<>>
    /\ dispatches = 0
    /\ queue' = <<"install">>
    /\ dispatches' = 1
    /\ UNCHANGED <<resources, written, cluster, plan, services, canConnect,
                   unitStatus, workloadVersion, ports, deferred, pc, idx,
                   attempt, handler, trace, delays, ret, evalResult, probe,
                   planAtStart, statusAtStart, hookFailed, phase>>

\* A later hook whose own event the charm does not observe (update-status,
\* config-changed): ops re-emits the deferred events.
LaterHook ==
    /\ pc = "idle"
    /\ queue = <<>>
    /\ dispatches > 0
    /\ deferred > 0
    /\ queue' = Repeat("reemit", deferred)
    /\ deferred' = 0
    /\ UNCHANGED <<resources, written, cluster, plan, services, canConnect,
                   unitStatus, workloadVersion, ports, dispatches, pc, idx,
                   attempt, handler, trace, delays, ret, evalResult, probe,
                   planAtStart, statusAtStart, hookFailed, phase>>

PebbleComesUp ==
    /\ ~canConnect
    /\ canConnect' = TRUE
    /\ UNCHANGED <<resources, written, cluster, plan, services, unitStatus,
                   workloadVersion, ports, deferred, queue, dispatches, phase,
                   pc, idx, attempt, handler, trace, delays, ret, evalResult,
                   probe, planAtStart, statusAtStart, hookFailed>>

PebbleGoesAway ==
    /\ canConnect
    /\ canConnect' = FALSE
    /\ UNCHANGED <<resources, written, cluster, plan, services, unitStatus,
                   workloadVersion, ports, deferred, queue, dispatches, phase,
                   pc, idx, attempt, handler, trace, delays, ret, evalResult,
                   probe, planAtStart, statusAtStart, hookFailed>>

HandlerSteps ==
    \/ InstallAndRestart
    \/ CreateKubernetesResourcesOk
    \/ GetPlan
    \/ AddLayerCall
    \/ Replan
    \/ Publish
    \/ SetStatus

NextLive ==
    \/ InstallHook
    \/ LaterHook
    \/ HandlerSteps
    \/ PebbleComesUp
    \/ PebbleGoesAway

FairLive ==
    /\ WF_vars(InstallHook)
    /\ WF_vars(LaterHook)
    /\ WF_vars(HandlerSteps)

SpecLive == Init /\ [][NextLive]_vars /\ FairLive

\* ================================================================ claims
Count(op) == Len(SelectSeq(trace, LAMBDA c : c.op = op))
CountOk(op) == Len(SelectSeq(trace, LAMBDA c : c.op = op /\ c.ok))
InPass == handler = "install_and_restart"
PassEnded == InPass /\ pc = "idle"
ReconcileOps == {"get_plan", "add_layer", "replan", "set_workload_version", "set_ports"}
ReconcileCalls == SelectSeq(trace, LAMBDA c : c.op \in {"get_plan", "add_layer", "replan"})
SupervisorCalls ==
    SelectSeq(trace, LAMBDA c : c.op \in {"get_plan", "add_layer", "replan", "get_services"})
AllOk(s) == \A i \in 1..Len(s) : s[i].ok
AllFailed(s) == \A i \in 1..Len(s) : ~s[i].ok
AllAppliesOk ==
    /\ Len(trace) >= Len(resources)
    /\ \A j \in 1..Len(resources) :
         trace[j].op = "apply" /\ trace[j].res = j /\ trace[j].ok

\* C1: in an install/upgrade/ready pass in which the k-th apply raises, the
\* k-1 resources before it were applied (and stay in the cluster), nothing
\* is attempted after the k-th, and the pass ends Blocked.
C1_ApplyFailFast ==
    \A k \in 1..Len(trace) :
        (InPass /\ trace[k].op = "apply" /\ ~trace[k].ok) =>
            /\ trace[k].res = k
            /\ Len(trace) = k
            /\ \A j \in 1..(k - 1) :
                 trace[j].op = "apply" /\ trace[j].res = j /\ trace[j].ok
            /\ CountOk("apply") = k - 1
            /\ (1..(k - 1)) \subseteq cluster
            /\ pc = "idle"
            /\ unitStatus = Status("blocked", "kubernetes resource creation failed")

\* The third apply of a pass raised.
C1_Witness ==
    /\ PassEnded
    /\ Len(trace) = 3
    /\ trace[3].op = "apply" /\ ~trace[3].ok
    /\ CountOk("apply") = 2
    /\ unitStatus.name = "blocked"

\* C2: a step of the process-layer reconcile (get_plan, add_layer, replan,
\* set_workload_version, set_ports) happens in a pass only after every
\* rendered resource was applied successfully in that pass; after a failed
\* apply the pass has ended and holds no such step.
C2_ReconcileAfterApply ==
    InPass =>
        /\ \A i \in 1..Len(trace) :
             trace[i].op \in ReconcileOps => (i > Len(resources) /\ AllAppliesOk)
        /\ pc \in {"get_plan", "add_layer", "replan", "publish", "status"} => AllAppliesOk
        /\ (\E k \in 1..Len(trace) : trace[k].op = "apply" /\ ~trace[k].ok) =>
             /\ pc = "idle"
             /\ ret = "none"
             /\ \A i \in 1..Len(trace) : trace[i].op \notin ReconcileOps

\* A pass whose reconcile ran to its end.
C2_Witness ==
    /\ PassEnded
    /\ ret = "true"
    /\ Count("add_layer") = 1 /\ Count("replan") = 1 /\ Count("set_ports") = 1

NonDecreasing(s) == \A i, j \in 1..Len(s) : i <= j => s[i] <= s[j]

\* C3: when every attempt finds the supervisor unavailable, the process
\* layer manager makes exactly 3 attempts, sleeps 3 x attempt index (0, 3)
\* between them, non-decreasing, and returns False without raising; no
\* pass ever holds a fourth attempt.
C3_BoundedRetry ==
    /\ Count("get_plan") <= 3
    /\ NonDecreasing(delays)
    /\ (InPass /\ ret = "false") =>
        /\ Count("get_plan") = 3
        /\ attempt = 2
        /\ delays = <<0, 3>>
        /\ \A i \in 1..Len(delays) : delays[i] = 3 * (i - 1)
        /\ ~hookFailed
        /\ pc = "idle"

\* Three attempts, each of which failed at get_plan.
C3_Witness ==
    /\ PassEnded
    /\ ret = "false"
    /\ Len(ReconcileCalls) = 3
    /\ \A i \in 1..3 : ReconcileCalls[i].op = "get_plan" /\ ~ReconcileCalls[i].ok

Reemits == Len(SelectSeq(queue, LAMBDA e : e = "reemit"))

\* C4: when reconcile returned False the pass has ended, without an
\* exception, with status Waiting and the event deferred; the next hook
\* dispatch re-emits every deferred event ahead of its own event, and a
\* re-emitted event runs _install_and_restart again.
C4_WaitingAndDeferred ==
    /\ [](ret = "false" =>
            /\ pc = "idle"
            /\ ~hookFailed
            /\ unitStatus = Status("waiting", "Waiting for Pebble in workload container")
            /\ deferred + Reemits >= 1)
    /\ [][(dispatches' = dispatches + 1) =>
            /\ Len(queue') = deferred + 1
            /\ \A i \in 1..deferred : queue'[i] = "reemit"]_vars
    /\ [][(queue # <<>> /\ Head(queue) = "reemit" /\ queue' = Tail(queue)) =>
            handler' = "install_and_restart"]_vars

\* The deferred event of a failed pass is being run again.
C4_Witness ==
    /\ InPass
    /\ queue # <<>> /\ Head(queue) = "reemit"
    /\ pc = "apply"
    /\ statusAtStart = WaitingPebble

Monotone(s) == \A i, j \in 1..Len(s) : (i < j /\ s[i].ok) => s[j].ok

\* C5: a pass in which every apply succeeds and the supervisor, once it
\* answers, keeps answering (it answers by the third attempt), ends
\* Active with the desired service in the plan and running, and the
\* workload version the probe returned.
C5_ReachableEndsActive ==
    ( /\ PassEnded
      /\ AllAppliesOk
      /\ SupervisorCalls # <<>>
      /\ Monotone(SupervisorCalls)
      /\ SupervisorCalls[Len(SupervisorCalls)].ok
      /\ Len(SelectSeq(SupervisorCalls, LAMBDA c : ~c.ok)) <= 2 ) =>
        /\ unitStatus = Status("active", "")
        /\ pebble_service_name \in DOMAIN plan
        /\ plan[pebble_service_name] = PebbleLayerServices[pebble_service_name]
        /\ services[pebble_service_name] = "active"
        /\ workloadVersion = Version(probe)

\* C6: the status evaluator returns Active exactly when the container is
\* reachable and the argo-rollouts service is present and running, Waiting
\* otherwise, and raises nothing.
C6_StatusEvaluator ==
    evalResult # UnknownStatus =>
        LET present == pebble_service_name \in DOMAIN services
            running == present /\ services[pebble_service_name] = "active"
        IN  /\ (evalResult = Status("active", "")) <=> (canConnect /\ present /\ running)
            /\ (evalResult # Status("active", "")) => evalResult.name = "waiting"
            /\ ~canConnect => evalResult.name = "waiting"
            /\ ~hookFailed

\* The evaluator answered Waiting for a service that is present but not running.
C6_Witness ==
    /\ evalResult = WaitingService
    /\ canConnect
    /\ pebble_service_name \in DOMAIN services
    /\ services[pebble_service_name] = "error"

\* C7: when the plan's services map equals the desired layer's when
\* reconcile runs, the pass holds no add_layer and no replan call and the
\* plan stays as it was.
C7_EqualPlanNoWrite ==
    (InPass /\ planAtStart = PebbleLayerServices) =>
        /\ Count("add_layer") = 0
        /\ Count("replan") = 0
        /\ plan = planAtStart

\* Reconcile ran to success on a plan that was already the desired one.
C7_Witness ==
    /\ PassEnded
    /\ planAtStart = PebbleLayerServices
    /\ ret = "true"
    /\ Count("get_plan") >= 1

DeleteOps == {"delete_namespaced", "delete_cluster"}

\* C9: on remove, a delete that raises ends the handler normally: no
\* exception leaves it, the unit status is what it was when the handler
\* began, and the hook (hence the removal) does not fail.
C9_RemoveSwallowsApiError ==
    handler = "remove" =>
        /\ unitStatus = statusAtStart
        /\ ~hookFailed
        /\ (\E i \in 1..Len(trace) : ~trace[i].ok) => (pc = "idle" /\ phase = "removed")

\* The second delete of a remove raised.
C9_Witness ==
    /\ handler = "remove"
    /\ pc = "idle"
    /\ Len(trace) = 2
    /\ trace[1].ok /\ ~trace[2].ok

\* C10: delete goes through the rendered resources in order, issuing a
\* namespaced delete with the resource's namespace when it declares one and
\* a cluster-scoped delete otherwise; the first failing delete is the last
\* one issued, and without a failure every resource gets its delete.
C10_DeleteByScope ==
    handler = "remove" =>
        /\ Len(trace) <= Len(resources)
        /\ \A i \in 1..Len(trace) :
            /\ trace[i].res = i
            /\ (resources[i].namespace # "") <=> (trace[i].op = "delete_namespaced")
            /\ (resources[i].namespace = "") <=> (trace[i].op = "delete_cluster")
            /\ trace[i].namespace = resources[i].namespace
            /\ ~trace[i].ok => (i = Len(trace) /\ pc = "idle")
        /\ (pc = "idle" /\ AllOk(trace)) => Len(trace) = Len(resources)

\* A remove that deleted every resource, of both scopes.
C10_Witness ==
    /\ handler = "remove"
    /\ pc = "idle"
    /\ Len(trace) = Len(resources)
    /\ AllOk(trace)
    /\ cluster = {}
    /\ \E i, j \in 1..Len(trace) :
         trace[i].op = "delete_namespaced" /\ trace[j].op = "delete_cluster"


\* C11: apply and delete are idempotent: a run of the apply loop, or of the
\* delete loop, that follows a successful run of the same loop succeeds too
\* and leaves the cluster as it was (for delete: every resource is absent
\* then, and that counts as success).
C11_Idempotent ==
    [][(/\ handler \in {"create", "delete"}
        /\ ret = "true"
        /\ handler' = handler
        /\ idx' = idx + 1) =>
            (ret' = "true" /\ cluster' = cluster)]_vars


\* C12: handling the stop event sets the unit status to Maintenance
\* "deleting kubernetes resources" and nothing else: it makes no call to the
\* cluster API or to Pebble and leaves the cluster, the plan, the run
\* state, the ports and the workload version as they were.
C12_StopOnlyStatus ==
    [][(queue # <<>> /\ Head(queue) = "stop" /\ queue' = Tail(queue)) =>
        /\ unitStatus' = Status("maintenance", "deleting kubernetes resources")
        /\ trace' = <<>>
        /\ UNCHANGED <<cluster, plan, services, ports, workloadVersion, deferred>>]_vars

\* Stop was handled on a unit that had resources, a plan and a port.
C12_Witness ==
    /\ handler = "stop"
    /\ unitStatus = MaintenanceDeleting
    /\ cluster = 1..NumResources
    /\ pebble_service_name \in DOMAIN plan
    /\ ports = {METRICS_PORT}


\* C13: removing is terminal: once the stop event has been handled and the
\* unit status is Maintenance "deleting kubernetes resources", no later step
\* changes the unit status or applies a resource to the cluster again.
C13_RemovingTerminal ==
    [][(phase # "live" /\ unitStatus = MaintenanceDeleting) =>
        (unitStatus' = MaintenanceDeleting /\ cluster' \subseteq cluster)]_vars


\* C17: for metrics text whose info line carries a token
\* v<major>.<minor>.<patch>, alone or followed by + and build metadata of
\* letters, digits and hyphens, the version probe returns the whole token.
C17_TokenVerbatim ==
    \A tok \in Tokens :
        (handler = "version" /\ ~probe.raises /\ probe.text = MetricsText(tok))
            => workloadVersion = tok


ProbeFailed == probe.raises \/ PatternSearch(probe.text) = <<>>

\* C14 (as stated): whenever the version probe fails (the request raises
\* or no metrics line matches) the version it returns is empty.
C14_ProbeFailureEmpty ==
    (InPass /\ ret = "true" /\ ProbeFailed) => workloadVersion = NoVersion

\* C14 (amended): a failed probe never raises and never changes the outcome
\* of the pass: a raising request yields the empty version, a pattern miss
\* yields the placeholder "fetching version failed", the reconcile reports
\* success, and the unit status the pass ends with is what the status
\* evaluator finds, whatever the probe returned.
C14_ProbeFailureSwallowed ==
    (PassEnded /\ ret = "true") =>
        /\ probe \in MetricsResponses
        /\ probe.raises => workloadVersion = NoVersion
        /\ (~probe.raises /\ PatternSearch(probe.text) = <<>>) =>
               workloadVersion = FetchFailed
        /\ ~ProbeFailed => workloadVersion = ReleaseToken
        /\ ~hookFailed
        /\ trace[Len(trace)].op = "get_services"
        /\ unitStatus = ArgoRolloutsStatus(trace[Len(trace)].ok, services)

\* A pass whose metrics request raised ended Active with an empty version.
C14_Witness ==
    /\ PassEnded
    /\ ret = "true"
    /\ probe.raises
    /\ workloadVersion = NoVersion
    /\ unitStatus = ActiveStatus


C15_State ==
    /\ ports \in {{}, {METRICS_PORT}}
    /\ METRICS_PORT = 8090
    /\ (InPass /\ ret = "true") =>
        /\ ports = {METRICS_PORT}
        /\ Count("set_workload_version") = 1
        /\ Count("set_ports") = 1
        /\ probe # NoProbe
        /\ workloadVersion = Version(probe)
    /\ (InPass /\ ret = "false") =>
        /\ Count("set_workload_version") = 0
        /\ Count("set_ports") = 0
        /\ probe = NoProbe

C15_Step ==
    (ports' # ports \/ workloadVersion' # workloadVersion) =>
        (pc = "publish" /\ ret' = "true")

\* C15: the set of opened ports is always empty or exactly {8090}; a
\* reconcile that reports success has opened exactly {8090} and published
\* the workload version in that same call; a reconcile that reports
\* failure opens no port and publishes no version (ports and version
\* change only in the step that makes reconcile return True).
C15_PortsAndVersion == []C15_State /\ [][C15_Step]_vars

\* A reconcile returned True with the port open and the version published.
C15_Witness ==
    /\ InPass
    /\ ret = "true"
    /\ ports = {METRICS_PORT}
    /\ workloadVersion = ReleaseToken


\* C18: whenever reconcile reports success the plan holds the desired
\* argo-rollouts service and no layer written since the last successful
\* replan is left without a replan.
C18_SuccessMeansReplanned ==
    (InPass /\ ret = "true") =>
        /\ pebble_service_name \in DOMAIN plan
        /\ plan[pebble_service_name] = PebbleLayerServices[pebble_service_name]
        /\ ~written


\* C16: re-entry after failure is idempotent. A pass entered from Waiting
\* "Waiting for Pebble in workload container" in which every supervisor
\* call succeeds ends as it would have with no failed pass before it. When
\* a failed pass wrote the layer (written), the plan differed from the
\* desired layer before the failed passes, so the pass on its own would
\* have written the layer, replanned, opened the port and ended Active
\* with the service running.
C16_ReentryIdempotent ==
    ( /\ PassEnded
      /\ statusAtStart = WaitingPebble
      /\ ret = "true"
      /\ AllOk(SupervisorCalls)
      /\ written ) =>
        /\ plan = AddLayer(planAtStart)
        /\ ports = {METRICS_PORT}
        /\ services[pebble_service_name] = "active"
        /\ unitStatus = Status("active", "")


\* C20: the status evaluator is pure and callable on its own: a call made
\* outside any handler, whatever the unit status, leaves the unit status,
\* the plan, the service run state, the opened ports, the workload version
\* and the cluster as they were, and a second call in the same state
\* returns what the first returned.
C20_EvaluatorPure ==
    [][(handler = "none" /\ trace' = Append(trace, Call("get_services", 0, "", canConnect))) =>
        /\ UNCHANGED <<unitStatus, plan, services, ports, workloadVersion, cluster>>
        /\ evalResult' = ArgoRolloutsStatus(canConnect, services)
        /\ evalResult # UnknownStatus => evalResult' = evalResult]_vars

\* Two calls on a Blocked unit with resources, a port and a version: both
\* answered Active and the unit is still Blocked.
C20_Witness ==
    /\ handler = "none"
    /\ Len(trace) = 2
    /\ evalResult = ActiveStatus
    /\ unitStatus = BlockedStatus
    /\ cluster = 1..NumResources
    /\ ports = {METRICS_PORT}
    /\ workloadVersion = ReleaseToken


\* C19: from the install hook on, with every apply succeeding, every
\* deferred event dispatched again and handlers running to their end, if
\* the supervisor is eventually reachable for good then the unit status is
\* eventually Active for good.
C19_EventuallyActive ==
    (<>[]canConnect) => <>[](unitStatus = Status("active", ""))

====
